---- MODULE Spec2Model ----
(***************************************************************************)
(* A model of gmdc_blender's importer, ImportGMDC in blender_import.py:    *)
(* execute, import_skeleton and do_import, as one sequential state machine.*)
(*                                                                         *)
(* Lengths and weights are fixed-point integers.  Coordinates are counted  *)
(* in units of the zero-length epsilon 0.00001, weights in units of 1/One. *)
(* A Python exception (IndexError, KeyError) ends execute: pc = "crashed". *)
(* The host calls are modelled by their interface: a new edit bone has its *)
(* head and tail at the origin and no parent, assigning a bone as its own  *)
(* parent is ignored by the host, vertex_groups.new appends a group, and   *)
(* vertgroup.add(.., 'ADD') adds to the weight the vertex already has (the *)
(* host's clamping of a stored weight to [0, 1] is left out).              *)
(***************************************************************************)
EXTENDS Integers, Sequences, FiniteSets

\* ---------------------------------------------------------------- bounds

MaxBones == 2
MaxGroups == 2
MaxVerts == 2
MaxInfl == 5

\* ------------------------------------------------------- program constants

\* remainder = 1.0, in weight units
One == 4
\* Vector((0, 0.00001, 0)), in coordinate units
Epsilon == 1
\* bonedata.parent == None
NoParent == -1
\* the slot of the implied weight: j != 3
ImpliedSlot == 3

\* ---------------------------------------------------------------- vectors

Origin == <<0, 0, 0>>

VAdd(a, b) == <<a[1] + b[1], a[2] + b[2], a[3] + b[3]>>

Cross(a, b) ==
  <<a[2] * b[3] - a[3] * b[2], a[3] * b[1] - a[1] * b[3], a[1] * b[2] - a[2] * b[1]>>

\* rot * trans for a unit quaternion q = (w, x, y, z):
\* v + 2w (u x v) + 2 (u x (u x v)), u = (x, y, z)
RotateIdentity(q, v) == v

Rotate(q, v) ==
  LET u == <<q[2], q[3], q[4]>>
      uv == Cross(u, v)
      uuv == Cross(u, uv)
  IN <<v[1] + 2 * q[1] * uv[1] + 2 * uuv[1],
       v[2] + 2 * q[1] * uv[2] + 2 * uuv[2],
       v[3] + 2 * q[1] * uv[3] + 2 * uuv[3]>>

\* bone.tail += Vector((0, 0.00001, 0))
PerturbNothing(tail) == tail

Perturb(tail) == VAdd(tail, <<0, Epsilon, 0>>)

\* the scale by (1, 1, -1) applied to the armature
Reflect(v) == <<v[1], v[2], 0 - v[3]>>

\* ----------------------------------------------------------------- inputs

Positions == {<<0, 0, 0>>, <<0, 1, 0>>, <<2, 0, 1>>}
Rotations == {<<1, 0, 0, 0>>, <<0, 0, 0, 1>>}
BoneNames == <<"root", "spine", "arm", "hand", "head">>
GroupNames == <<"body", "hair", "face", "prop">>
WeightVals == {1, 2}

BoneRecord(n, p, r, par) == [name |-> n, position |-> p, rotation |-> r, parent |-> par]

\* a parent index may name the bone itself or a later one
Parents == {NoParent} \cup (0 .. (MaxBones - 1))

\* the bone table that gives bone k the position, rotation and parent f[k]
Skeleton(f) ==
  [k \in DOMAIN f |-> BoneRecord(BoneNames[k], f[k][1], f[k][2], f[k][3])]

FixedSkeleton ==
  <<BoneRecord(BoneNames[1], <<2, 0, 1>>, <<1, 0, 0, 0>>, NoParent),
    BoneRecord(BoneNames[2], <<0, 1, 0>>, <<0, 0, 0, 1>>, 0)>>

Fill(n, x) == [i \in 1 .. n |-> x]

ModelGroup(n, nv, nn, nuv, f, ba, bw) ==
  [name |-> n, vertices |-> Fill(nv, Origin), normals |-> Fill(nn, <<0, 0, 1>>),
   uvs |-> Fill(nuv, <<0, 0>>), faces |-> f, bone_assign |-> ba, bone_weight |-> bw]

\* a group whose four lengths vary, every vertex bound to bone 0 alone
LengthGroup(n, nv, nn, na, nw) ==
  ModelGroup(n, nv, nn, nv, <<>>, Fill(na, <<0>>), Fill(nw, <<One>>))

\* a sound group, one with a bone_assign short, one with its normals short, one with
\* a face and four bone indices, one with a face and no uvs
PlainGroups(n) ==
  <<LengthGroup(n, 1, 1, 1, 1), LengthGroup(n, 1, 1, 0, 1), LengthGroup(n, 1, 0, 1, 1),
    ModelGroup(n, 1, 1, 1, <<<<0, 0, 0>>>>, <<<<0, 1, 1, 0>>>>, <<<<1, 1, 1>>>>),
    ModelGroup(n, 1, 1, 0, <<<<0, 0, 0>>>>, <<<<0>>>>, <<<<One>>>>)>>

PlainKinds == DOMAIN PlainGroups(GroupNames[1])

\* the list whose group at position rich has the four lengths len, the others being
\* the plain groups kind names
GroupList(kind, rich, len) ==
  [k \in DOMAIN kind |->
     IF k = rich THEN LengthGroup(GroupNames[k], len[1], len[2], len[3], len[4])
     ELSE PlainGroups(GroupNames[k])[kind[k]]]

\* one vertex with the bone indices a and the explicit weights w
SkinGroup(a, w) == ModelGroup(GroupNames[1], 1, 1, 1, <<>>, <<a>>, <<w>>)

GmdcFile(h, b, found, g) ==
  [header_ok |-> h, bones |-> b, groups |-> [found |-> found, models |-> g]]

\* files with an unsupported header tag
IsRejectedFile(f) ==
  \E kind \in PlainKinds :
    f = GmdcFile(FALSE, FixedSkeleton, TRUE, <<PlainGroups(GroupNames[1])[kind]>>)

\* files whose bone table varies, with no geometry or one sound group
IsSkeletonFile(f) ==
  \E n \in 0 .. MaxBones :
    \E b \in [1 .. n -> Positions \X Rotations \X Parents] :
      \E found \in BOOLEAN :
        f = GmdcFile(TRUE, Skeleton(b), found,
                     IF found THEN <<PlainGroups(GroupNames[1])[1]>> ELSE <<>>)

\* files whose list of groups varies
IsGroupsFile(f) ==
  \E n \in 0 .. MaxGroups :
    \E kind \in [1 .. n -> PlainKinds] :
      \E rich \in 1 .. MaxGroups :
        \E len \in (0 .. MaxVerts) \X (0 .. MaxVerts) \X (0 .. MaxVerts) \X (0 .. MaxVerts) :
          f = GmdcFile(TRUE, FixedSkeleton, TRUE, GroupList(kind, rich, len))

\* files whose one vertex has varied bone indices (index 2 is outside the bone table)
\* and varied explicit weights
IsSkinFile(f) ==
  \/ \E la, lw \in 0 .. MaxInfl :
       \E a \in [1 .. la -> 0 .. 1] :
         \E w \in [1 .. lw -> WeightVals] :
           f = GmdcFile(TRUE, FixedSkeleton, TRUE, <<SkinGroup(a, w)>>)
  \/ \E a \in {<<2>>, <<0, 2>>, <<0, 1, 0, 2>>} :
       f = GmdcFile(TRUE, FixedSkeleton, TRUE, <<SkinGroup(a, <<1, 1, 1>>)>>)

\* ------------------------------------------------------------------ state

VARIABLES
  file,               \* the decoded file: what load_header, load_data,
                      \* groups_from_gmdc and build_bones will return
  pc,                 \* execute's position
  load_data_called,   \* gmdc_data.load_data() has run
  b_models,           \* groups_from_gmdc's result, once called
  groups_called,      \* groups_from_gmdc has been called
  skeldata,           \* build_bones' result
  bone_parent_table,  \* BoneData.bone_parent_table
  table_built,        \* build_bones has completed
  edit_bones,         \* amt.edit_bones
  armature_returned,  \* import_skeleton has returned
  scene,              \* the host's scene objects, in creation order
  scene_at_call,      \* the scene when do_import was last called
  printed,            \* what execute and do_import printed
  last_return,        \* the value the last do_import returned
  bi,                 \* import_skeleton's loop index (0-based)
  mi,                 \* execute's loop index over b_models (1-based)
  vi                  \* do_import's weight loop index i (0-based)

vars ==
  <<file, pc, load_data_called, b_models, groups_called, skeldata, bone_parent_table,
    table_built, edit_bones, armature_returned, scene, scene_at_call, printed,
    last_return, bi, mi, vi>>

Message(k, g) == [kind |-> k, group |-> g]

NoReturn == Message("none", "")

Init ==
  /\ \/ IsRejectedFile(file)
     \/ IsSkeletonFile(file)
     \/ IsGroupsFile(file)
     \/ IsSkinFile(file)
  /\ pc = "start"
  /\ load_data_called = FALSE
  /\ b_models = [found |-> FALSE, models |-> <<>>]
  /\ groups_called = FALSE
  /\ skeldata = <<>>
  /\ bone_parent_table = <<>>
  /\ table_built = FALSE
  /\ edit_bones = <<>>
  /\ armature_returned = FALSE
  /\ scene = <<>>
  /\ scene_at_call = <<>>
  /\ printed = <<>>
  /\ last_return = NoReturn
  /\ bi = 0
  /\ mi = 1
  /\ vi = 0

\* ---------------------------------------------------------------- execute

\* gmdc_data.load_header() == False
HeaderRejectedNever(h) == FALSE

HeaderRejected(h) == h = FALSE

\* lines 48-51: the header guard
LoadHeader ==
  /\ pc = "start"
  /\ IF HeaderRejected(file.header_ok)
     THEN /\ printed' = Append(printed, Message("unsupported", ""))
          /\ pc' = "failed"
     ELSE /\ printed' = printed
          /\ pc' = "load_data"
  /\ UNCHANGED <<file, load_data_called, b_models, groups_called, skeldata,
                 bone_parent_table, table_built, edit_bones, armature_returned, scene,
                 scene_at_call, last_return, bi, mi, vi>>

\* line 53
LoadData ==
  /\ pc = "load_data"
  /\ load_data_called' = TRUE
  /\ pc' = "groups"
  /\ UNCHANGED <<file, b_models, groups_called, skeldata, bone_parent_table, table_built,
                 edit_bones, armature_returned, scene, scene_at_call, printed,
                 last_return, bi, mi, vi>>

\* line 54
GroupsFromGmdc ==
  /\ pc = "groups"
  /\ b_models' = file.groups
  /\ groups_called' = TRUE
  /\ pc' = "skeleton"
  /\ UNCHANGED <<file, load_data_called, skeldata, bone_parent_table, table_built,
                 edit_bones, armature_returned, scene, scene_at_call, printed,
                 last_return, bi, mi, vi>>

\* -------------------------------------------------------- import_skeleton

SceneObject(t, n, nv) ==
  [type |-> t, name |-> n, nverts |-> nv, normals |-> 0, uv_layer |-> FALSE,
   vertex_groups |-> <<>>, adds |-> <<>>]

\* BoneData.build_bones fills the bone table: one (name, parent) entry per bone record
BuildTable(bones) == [k \in 1 .. Len(bones) |-> <<bones[k].name, bones[k].parent>>]

\* amt.edit_bones.new(name)
NewEditBone(n) == [name |-> n, head |-> Origin, tail |-> Origin, parent |-> NoParent]

\* bone.parent = parent: the host keeps the old parent when a bone is given itself
EditBoneParentAssign(self, p) == p

EditBoneParentSet(self, p) == IF p = self THEN NoParent ELSE p

\* lines 78-92: build_bones, then the armature object is added to the scene
BeginSkeleton ==
  /\ pc = "skeleton"
  /\ skeldata' = file.bones
  /\ bone_parent_table' = BuildTable(file.bones)
  /\ table_built' = TRUE
  /\ scene' = Append(scene, SceneObject("ARMATURE", "Armature", 0))
  /\ bi' = 0
  /\ pc' = "bones"
  /\ UNCHANGED <<file, load_data_called, b_models, groups_called, edit_bones,
                 armature_returned, scene_at_call, printed, last_return, mi, vi>>

\* lines 95-117: one iteration of the loop over skeldata
BuildBone ==
  /\ pc = "bones"
  /\ bi < Len(skeldata)
  /\ LET bonedata == skeldata[bi + 1]
         tail0 == Rotate(bonedata.rotation, bonedata.position)
         created == Append(edit_bones, [NewEditBone(bonedata.name) EXCEPT !.tail = tail0])
     IN IF bonedata.parent /= NoParent /\ bonedata.parent >= Len(created)
        THEN \* amt.edit_bones[bonedata.parent] raises
             /\ edit_bones' = created
             /\ pc' = "crashed"
             /\ bi' = bi
        ELSE LET head == IF bonedata.parent /= NoParent
                         THEN created[bonedata.parent + 1].tail
                         ELSE Origin
                 link == IF bonedata.parent /= NoParent
                         THEN EditBoneParentSet(bi, bonedata.parent)
                         ELSE NoParent
                 tail == IF tail0 = head THEN Perturb(tail0) ELSE tail0
             IN /\ edit_bones' = Append(edit_bones,
                     [name |-> bonedata.name, head |-> head, tail |-> tail, parent |-> link])
                /\ pc' = "bones"
                /\ bi' = bi + 1
  /\ UNCHANGED <<file, load_data_called, b_models, groups_called, skeldata,
                 bone_parent_table, table_built, armature_returned, scene, scene_at_call,
                 printed, last_return, mi, vi>>

\* lines 121-126: the armature is scaled by (1, 1, -1) and returned
FinishSkeleton ==
  /\ pc = "bones"
  /\ bi = Len(skeldata)
  /\ edit_bones' = [k \in 1 .. Len(edit_bones) |->
                      [edit_bones[k] EXCEPT !.head = Reflect(@), !.tail = Reflect(@)]]
  /\ armature_returned' = TRUE
  /\ mi' = 1
  /\ pc' = "loop"
  /\ UNCHANGED <<file, load_data_called, b_models, groups_called, skeldata,
                 bone_parent_table, table_built, scene, scene_at_call, printed,
                 last_return, bi, vi>>

\* -------------------------------------------------------------- do_import

\* the group execute's loop is at, and the object do_import made for it
Model == b_models.models[mi]

Object == scene[Len(scene)]

SetObject(o) == [scene EXCEPT ![Len(scene)] = o]

\* lines 129-138: the mesh and its object are created and linked to the scene
CreateObject ==
  /\ pc = "loop"
  /\ b_models.found
  /\ mi <= Len(b_models.models)
  /\ scene_at_call' = scene
  /\ printed' = Append(printed, Message("importing", Model.name))
  /\ scene' = Append(scene, SceneObject("MESH", Model.name, Len(Model.vertices)))
  /\ pc' = "normals"
  /\ UNCHANGED <<file, load_data_called, b_models, groups_called, skeldata,
                 bone_parent_table, table_built, edit_bones, armature_returned,
                 last_return, bi, mi, vi>>

\* lines 141-143: b_model.normals[i] raises once i reaches len(normals)
LoadNormals ==
  /\ pc = "normals"
  /\ IF Len(Model.normals) < Object.nverts
     THEN /\ scene' = SetObject([Object EXCEPT !.normals = Len(Model.normals)])
          /\ pc' = "crashed"
     ELSE /\ scene' = SetObject([Object EXCEPT !.normals = Object.nverts])
          /\ pc' = "uvs"
  /\ UNCHANGED <<file, load_data_called, b_models, groups_called, skeldata,
                 bone_parent_table, table_built, edit_bones, armature_returned,
                 scene_at_call, printed, last_return, bi, mi, vi>>

\* lines 146-152: b_model.uvs[vertex_index] raises for an index past the uvs
LoadUVs ==
  /\ pc = "uvs"
  /\ scene' = SetObject([Object EXCEPT !.uv_layer = TRUE])
  /\ pc' = IF \E f \in 1 .. Len(Model.faces) :
                \E c \in 1 .. Len(Model.faces[f]) : Model.faces[f][c] >= Len(Model.uvs)
           THEN "crashed"
           ELSE "vertex_groups"
  /\ UNCHANGED <<file, load_data_called, b_models, groups_called, skeldata,
                 bone_parent_table, table_built, edit_bones, armature_returned,
                 scene_at_call, printed, last_return, bi, mi, vi>>

\* object.vertex_groups.new(val[0]) for val in the bone table, in its order
VertexGroupsButLast(table, nv) ==
  [k \in 1 .. (Len(table) - 1) |-> [name |-> table[k][1], weights |-> Fill(nv, 0)]]

VertexGroupsFor(table, nv) ==
  [k \in 1 .. Len(table) |-> [name |-> table[k][1], weights |-> Fill(nv, 0)]]

\* lines 155-156
CreateVertexGroups ==
  /\ pc = "vertex_groups"
  /\ scene' = SetObject([Object EXCEPT
                 !.vertex_groups = VertexGroupsFor(bone_parent_table, Object.nverts)])
  /\ pc' = "check"
  /\ UNCHANGED <<file, load_data_called, b_models, groups_called, skeldata,
                 bone_parent_table, table_built, edit_bones, armature_returned,
                 scene_at_call, printed, last_return, bi, mi, vi>>

\* lines 160-161: only the bone_assign and bone_weight counts are compared
CountsMismatch(g) ==
  \/ Len(g.vertices) /= Len(g.bone_assign)
  \/ Len(g.vertices) /= Len(g.bone_weight)

\* lines 160-164: the error is returned, and printed by execute (line 60)
CheckCounts ==
  /\ pc = "check"
  /\ IF CountsMismatch(Model)
     THEN /\ printed' = Append(printed, Message("mismatch", Model.name))
          /\ last_return' = Message("mismatch", Model.name)
          /\ mi' = mi + 1
          /\ pc' = "loop"
     ELSE /\ UNCHANGED <<printed, last_return, mi>>
          /\ pc' = "weights"
  /\ vi' = 0
  /\ UNCHANGED <<file, load_data_called, b_models, groups_called, skeldata,
                 bone_parent_table, table_built, edit_bones, armature_returned, scene,
                 scene_at_call, bi>>

\* object.vertex_groups[grpname]: the first group of that name, 0 when there is none
GroupIndex(groups, grpname) ==
  IF \E k \in 1 .. Len(groups) : groups[k].name = grpname
  THEN CHOOSE k \in 1 .. Len(groups) :
         /\ groups[k].name = grpname
         /\ \A l \in 1 .. (k - 1) : groups[l].name /= grpname
  ELSE 0

\* vertgroup.add([i], weight, 'ADD')
VertexGroupReplace(old, weight) == weight

VertexGroupAdd(old, weight) == old + weight

AddWeight(o, g, v, weight) ==
  [o EXCEPT !.vertex_groups[g].weights[v + 1] = VertexGroupAdd(@, weight),
            !.adds = Append(@, [vert |-> v, group |-> g, weight |-> weight])]

\* remainder -= weight
RemainderKept(remainder, weight) == remainder

RemainderAfter(remainder, weight) == remainder - weight

\* lines 175-185: the loop over j for vertex i, from slot j on
RECURSIVE InnerLoop(_, _, _, _, _, _, _)
InnerLoop(o, table, assign, weights, i, j, remainder) ==
  IF j = Len(assign) THEN [object |-> o, raised |-> FALSE]
  ELSE IF assign[j + 1] >= Len(table) THEN [object |-> o, raised |-> TRUE]
  ELSE LET g == GroupIndex(o.vertex_groups, table[assign[j + 1] + 1][1])
       IN IF g = 0 THEN [object |-> o, raised |-> TRUE]
          ELSE IF j /= ImpliedSlot
          THEN IF j >= Len(weights) THEN [object |-> o, raised |-> TRUE]
               ELSE InnerLoop(AddWeight(o, g, i, weights[j + 1]), table, assign, weights,
                              i, j + 1, RemainderAfter(remainder, weights[j + 1]))
          ELSE InnerLoop(AddWeight(o, g, i, remainder), table, assign, weights,
                         i, j + 1, remainder)

\* lines 172-185: one iteration of the loop over i
ApplyVertexWeights ==
  /\ pc = "weights"
  /\ vi < Len(Model.bone_assign)
  /\ LET r == InnerLoop(Object, bone_parent_table, Model.bone_assign[vi + 1],
                        Model.bone_weight[vi + 1], vi, 0, One)
     IN /\ scene' = SetObject(r.object)
        /\ pc' = IF r.raised THEN "crashed" ELSE "weights"
        /\ vi' = IF r.raised THEN vi ELSE vi + 1
  /\ UNCHANGED <<file, load_data_called, b_models, groups_called, skeldata,
                 bone_parent_table, table_built, edit_bones, armature_returned,
                 scene_at_call, printed, last_return, bi, mi>>

\* line 187, printed by execute (line 60)
ReturnImported ==
  /\ pc = "weights"
  /\ vi = Len(Model.bone_assign)
  /\ printed' = Append(printed, Message("imported", Model.name))
  /\ last_return' = Message("imported", Model.name)
  /\ mi' = mi + 1
  /\ pc' = "loop"
  /\ UNCHANGED <<file, load_data_called, b_models, groups_called, skeldata,
                 bone_parent_table, table_built, edit_bones, armature_returned, scene,
                 scene_at_call, bi, vi>>

\* lines 58-62: no groups, or the loop is over
Finish ==
  /\ pc = "loop"
  /\ ~b_models.found \/ mi > Len(b_models.models)
  /\ pc' = "done"
  /\ UNCHANGED <<file, load_data_called, b_models, groups_called, skeldata,
                 bone_parent_table, table_built, edit_bones, armature_returned, scene,
                 scene_at_call, printed, last_return, bi, mi, vi>>

Next ==
  \/ LoadHeader
  \/ LoadData
  \/ GroupsFromGmdc
  \/ BeginSkeleton
  \/ BuildBone
  \/ FinishSkeleton
  \/ CreateObject
  \/ LoadNormals
  \/ LoadUVs
  \/ CreateVertexGroups
  \/ CheckCounts
  \/ ApplyVertexWeights
  \/ ReturnImported
  \/ Finish

Spec == Init /\ [][Next]_vars

\* ------------------------------------------------------------- properties

Printed(m) == \E n \in 1 .. Len(printed) : printed[n] = m

RECURSIVE SumSeq(_)
SumSeq(s) == IF s = <<>> THEN 0 ELSE Head(s) + SumSeq(Tail(s))

\* the groups handed to the import loop, and the object do_import made for group k
\* (the armature is the scene's first object)
Groups == b_models.models

Called(k) == armature_returned /\ b_models.found /\ Len(scene) >= k + 1

ObjectOf(k) == scene[k + 1]

\* do_import was called for group k and has ended, by a return or by an exception
Ended(k) == Called(k) /\ (k < mi \/ pc = "crashed")

Imported(k) == Called(k) /\ k < mi /\ Printed(Message("imported", Groups[k].name))

\* the weights vertex v has over all vertex groups, and the weights added for it
TotalWeight(o, v) ==
  SumSeq([g \in 1 .. Len(o.vertex_groups) |-> o.vertex_groups[g].weights[v + 1]])

AddsOf(o, v) == SelectSeq(o.adds, LAMBDA a : a.vert = v)

AddedWeights(o, v) == LET sel == AddsOf(o, v) IN [n \in 1 .. Len(sel) |-> sel[n].weight]

Contributions(o, g, v) ==
  LET sel == SelectSeq(o.adds, LAMBDA a : a.vert = v /\ a.group = g)
  IN [n \in 1 .. Len(sel) |-> sel[n].weight]

\* C1: when load_header reports an unsupported header tag, execute stops at once:
\* load_data and groups_from_gmdc are never called, neither import_skeleton nor
\* do_import runs, and the scene holds no object.
C1_UnsupportedHeaderStops ==
  ~file.header_ok =>
    /\ pc \in {"start", "failed"}
    /\ ~load_data_called
    /\ ~groups_called
    /\ ~table_built
    /\ edit_bones = <<>>
    /\ scene = <<>>
    /\ pc = "failed" => printed = <<Message("unsupported", "")>>

C1_Witness == ~file.header_ok /\ pc = "failed" /\ printed = <<Message("unsupported", "")>>

\* C2 (as claimed): once execute has ended, every group of the list was passed to
\* do_import; a group whose vertex count differs from its bone_assign or bone_weight
\* count has its mismatch message and no weight; every group whose counts match is
\* reported as imported.
C2_MismatchPerGroup ==
  (pc \in {"done", "crashed"} /\ armature_returned /\ b_models.found) =>
    \A k \in 1 .. Len(Groups) :
      /\ Printed(Message("importing", Groups[k].name))
      /\ CountsMismatch(Groups[k]) =>
           /\ Printed(Message("mismatch", Groups[k].name))
           /\ ObjectOf(k).adds = <<>>
      /\ ~CountsMismatch(Groups[k]) => Printed(Message("imported", Groups[k].name))

FourLengthsEqual(g) ==
  /\ Len(g.vertices) = Len(g.normals)
  /\ Len(g.vertices) = Len(g.bone_assign)
  /\ Len(g.vertices) = Len(g.bone_weight)

\* C3 (as claimed): for every group do_import was called for and has ended with,
\* either its four lengths are equal and it is reported as imported, or its mismatch
\* is reported; no group with unequal lengths is reported as imported.
C3_EqualLengthsOrMismatch ==
  \A k \in 1 .. Len(Groups) :
    /\ Ended(k) =>
         \/ FourLengthsEqual(Groups[k]) /\ Printed(Message("imported", Groups[k].name))
         \/ Printed(Message("mismatch", Groups[k].name))
    /\ Imported(k) => FourLengthsEqual(Groups[k])

\* C4 (as claimed): when do_import has returned the mismatch error for a group, the
\* scene is what it was when do_import was called for that group.
C4_MismatchLeavesScene ==
  (pc \in {"loop", "done"} /\ last_return.kind = "mismatch") => scene = scene_at_call

\* C5 (as claimed): every vertex of a group reported as imported has weights added
\* that total exactly 1.0, whatever the number of its bone indices.
C5_WeightsTotalOne ==
  \A k \in 1 .. Len(Groups) :
    Imported(k) =>
      \A v \in 0 .. (Len(Groups[k].vertices) - 1) : TotalWeight(ObjectOf(k), v) = One

\* C5 (amended): in a group reported as imported, a vertex with exactly four bone
\* indices gets its three explicit weights and then 1.0 minus their sum, which total
\* exactly 1.0; a vertex with fewer than four gets its explicit weights alone.
C5_FourIndicesTotalOne ==
  \A k \in 1 .. Len(Groups) :
    Imported(k) =>
      \A v \in 0 .. (Len(Groups[k].vertices) - 1) :
        LET assign == Groups[k].bone_assign[v + 1]
            weights == Groups[k].bone_weight[v + 1]
            added == AddedWeights(ObjectOf(k), v)
        IN /\ Len(assign) = 4 =>
                /\ added = <<weights[1], weights[2], weights[3],
                             One - (weights[1] + weights[2] + weights[3])>>
                /\ TotalWeight(ObjectOf(k), v) = One
           /\ Len(assign) < 4 =>
                /\ added = SubSeq(weights, 1, Len(assign))
                /\ TotalWeight(ObjectOf(k), v) = SumSeq(added)

C5_Witness ==
  /\ Imported(1)
  /\ Len(Groups[1].vertices) = 1
  /\ Len(Groups[1].bone_assign[1]) = 4
  /\ Groups[1].bone_weight[1][1] + Groups[1].bone_weight[1][2]
       + Groups[1].bone_weight[1][3] /= One
  /\ Len(AddsOf(ObjectOf(1), 0)) = 4

\* C6: the weight a vertex has in a vertex group is the sum of all the contributions
\* added for that group and vertex: a later contribution never overwrites an earlier.
C6_ContributionsAccumulate ==
  \A n \in 1 .. Len(scene) :
    \A g \in 1 .. Len(scene[n].vertex_groups) :
      \A v \in 0 .. (scene[n].nverts - 1) :
        scene[n].vertex_groups[g].weights[v + 1] = SumSeq(Contributions(scene[n], g, v))

C6_Witness ==
  /\ Imported(1)
  /\ Len(Groups[1].vertices) = 1
  /\ \E j1, j2 \in 1 .. Len(Groups[1].bone_assign[1]) :
       /\ j1 < j2
       /\ Groups[1].bone_assign[1][j1] = Groups[1].bone_assign[1][j2]
  /\ \E g \in 1 .. Len(ObjectOf(1).vertex_groups) : Len(Contributions(ObjectOf(1), g, 0)) >= 2

\* the bones import_skeleton has finished constructing
Processed == 1 .. bi

\* the rotation of v by the unit quaternion q = (w, x, y, z), by q's rotation matrix
MatrixRotation(q, v) ==
  LET w == q[1]
      x == q[2]
      y == q[3]
      z == q[4]
  IN <<(1 - 2 * (y * y + z * z)) * v[1] + 2 * (x * y - w * z) * v[2]
         + 2 * (x * z + w * y) * v[3],
       2 * (x * y + w * z) * v[1] + (1 - 2 * (x * x + z * z)) * v[2]
         + 2 * (y * z - w * x) * v[3],
       2 * (x * z - w * y) * v[1] + 2 * (y * z + w * x) * v[2]
         + (1 - 2 * (x * x + y * y)) * v[3]>>

\* bone k's local rotation applied to its local translation
Computed(k) == MatrixRotation(skeldata[k].rotation, skeldata[k].position)

\* C7 (as claimed): before the reflection, a bone without a parent has its head at
\* the origin, a bone with a parent has its head at the parent's tail, and the bone's
\* tail is the parent's tail (the origin for a root) plus its rotation applied to its
\* translation, apart from the zero-length perturbation.
C7_TailChainsFromParent ==
  ~armature_returned =>
    \A k \in Processed :
      LET parent == skeldata[k].parent
          base == IF parent = NoParent THEN Origin ELSE edit_bones[parent + 1].tail
          chained == VAdd(base, Computed(k))
      IN parent < k - 1 =>
           /\ edit_bones[k].head = base
           /\ edit_bones[k].tail \in {chained, VAdd(chained, <<0, Epsilon, 0>>)}

\* C7 (amended): before the reflection, a bone without a parent has its head at the
\* origin, a bone whose parent is an earlier bone has its head at that parent's tail,
\* and every bone's tail is its rotation applied to its translation alone, with no
\* parent offset, apart from the zero-length perturbation.
C7_TailIsRotatedTranslation ==
  ~armature_returned =>
    \A k \in Processed :
      LET parent == skeldata[k].parent
      IN /\ parent = NoParent => edit_bones[k].head = Origin
         /\ (parent /= NoParent /\ parent < k - 1) =>
              edit_bones[k].head = edit_bones[parent + 1].tail
         /\ edit_bones[k].tail \in {Computed(k), VAdd(Computed(k), <<0, Epsilon, 0>>)}

C7_Witness ==
  /\ ~armature_returned
  /\ bi = 2
  /\ skeldata[2].parent = 0
  /\ skeldata[2].rotation /= <<1, 0, 0, 0>>
  /\ edit_bones[1].tail /= Origin
  /\ edit_bones[2].head = edit_bones[1].tail
  /\ edit_bones[2].tail = Computed(2)
  /\ Computed(2) /= skeldata[2].position

C9_NoZeroLengthBone ==
  \A k \in Processed :
    /\ edit_bones[k].tail /= edit_bones[k].head
    /\ ~armature_returned =>
         LET head == edit_bones[k].head
             tail == edit_bones[k].tail
         IN IF Computed(k) = head
            THEN tail = <<head[1], head[2] + Epsilon, head[3]>>
            ELSE tail = Computed(k)

C9_Witness ==
  /\ ~armature_returned
  /\ bi = 2
  /\ skeldata[2].parent = 0
  /\ Computed(2) = edit_bones[1].tail
  /\ Computed(2) /= Origin
  /\ edit_bones[2].tail = VAdd(edit_bones[2].head, <<0, Epsilon, 0>>)

MeshObjects == {n \in 1 .. Len(scene) : scene[n].type = "MESH"}

\* C10: do_import runs only once build_bones has filled the bone table and
\* import_skeleton has returned, and a weight has been added to an object only when
\* that object has its vertex group for every entry of the bone table, in the
\* table's order; every weight went to a vertex group that exists.
C10_TableBeforeWeights ==
  \A n \in MeshObjects :
    /\ table_built
    /\ armature_returned
    /\ bone_parent_table = BuildTable(file.bones)
    /\ scene[n].adds /= <<>> =>
         /\ Len(scene[n].vertex_groups) = Len(bone_parent_table)
         /\ \A k \in 1 .. Len(bone_parent_table) :
              scene[n].vertex_groups[k].name = bone_parent_table[k][1]
         /\ \A a \in 1 .. Len(scene[n].adds) :
              scene[n].adds[a].group \in 1 .. Len(scene[n].vertex_groups)

C10_Witness ==
  /\ pc = "weights"
  /\ Len(bone_parent_table) = 2
  /\ Object.adds /= <<>>
  /\ Len(Object.vertex_groups) = 2

====
